---- MODULE Spec2Model ----
(***************************************************************************)
(* The text cursor of org-rs (rust/element/src/cursor.rs): a position into *)
(* a borrowed, immutable UTF-8 buffer, the two boundary metrics it is      *)
(* built on, and its navigation, scanning and search operations.           *)
(*                                                                         *)
(* Offsets are byte offsets, 0-based as in the source; the byte at offset  *)
(* k of a buffer s is s[k + 1].  An Option<T> is a sequence: None is << >> *)
(* and Some(x) is << x >>.  A panic inside a metric is the value PanicV.   *)
(***************************************************************************)
EXTENDS Integers, Sequences, FiniteSets, TLC

VARIABLES data, pos, fault, call

vars == << data, pos, fault, call >>

----------------------------------------------------------------------------
(* Bounds of the model.                                                    *)

\* Longest buffer, in characters.
MaxChars == 3
\* Largest step of inc and dec.
MaxStep == 2
\* How far past the end of the buffer inc is followed.
MaxOver == 2
\* Largest line count n of the line queries (and -MaxLines the smallest).
MaxLines == 3
\* Largest occurrence count of search_forward.
MaxCount == 2

----------------------------------------------------------------------------
(* Bytes, characters and buffers.                                          *)

\* b'\n'
LF == 10

\* The characters buffers are made of, each as its UTF-8 encoding:
\* '\n', 'a' and the two-byte U+0417 of the source's tests.
ChNl == << 10 >>
ChA  == << 97 >>
ChZe == << 208, 151 >>
Chars == { ChNl, ChA, ChZe }

NoneV == << >>
Some(x) == << x >>
PanicV == << -1 >>

RECURSIVE Flatten(_)
Flatten(cs) == IF cs = << >> THEN << >> ELSE Head(cs) \o Flatten(Tail(cs))

\* Every well-formed buffer of at most MaxChars characters.
Buffers == { Flatten(cs) : cs \in UNION { [1..k -> Chars] : k \in 0..MaxChars } }

\* s[from..to) as the source slices it.
Slice(s, from, to) == SubSeq(s, from + 1, to)

\* char::is_whitespace, on the characters of the model.
IsWhitespace(c) == c = ChNl

Min(S) == CHOOSE x \in S : \A y \in S : x <= y
Max(S) == CHOOSE x \in S : \A y \in S : x >= y

----------------------------------------------------------------------------
(* CharMetric.                                                             *)

len_utf8_from_first_byte(b) ==
    IF b < 128 THEN 1
    ELSE IF b < 224 THEN 2
    ELSE IF b < 240 THEN 3
    ELSE 4

\* str::is_char_boundary: 0 and len are boundaries, an offset past len is
\* not, and inside the buffer every byte but a continuation byte starts a
\* character.
is_char_boundary(s, offset) ==
    \/ offset = 0
    \/ offset = Len(s)
    \/ /\ offset > 0
       /\ offset < Len(s)
       /\ ~(s[offset + 1] >= 128 /\ s[offset + 1] < 192)

CharIsBoundary(s, offset) == is_char_boundary(s, offset)

RECURSIVE CharPrevLoop(_, _, _)
CharPrevLoop(s, offset, len) ==
    IF is_char_boundary(s, offset - len)
    THEN offset - len
    ELSE CharPrevLoop(s, offset, len + 1)

CharPrev(s, offset) ==
    IF offset = 0 THEN NoneV ELSE Some(CharPrevLoop(s, offset, 1))

CharNext(s, offset) ==
    IF offset = Len(s) THEN NoneV
    ELSE IF offset > Len(s) THEN PanicV
    ELSE Some(offset + len_utf8_from_first_byte(s[offset + 1]))

----------------------------------------------------------------------------
(* NewlineMetric.                                                          *)

\* memchr(b, hay): the first index of b in hay, hay being s[from..).
memchr(b, s, from) ==
    LET hits == { i \in from..(Len(s) - 1) : s[i + 1] = b }
    IN  IF hits = {} THEN NoneV ELSE Some(Min(hits))

\* memrchr(b, hay): the last index of b in hay, hay being s[..to).
memrchr(b, s, to) ==
    LET hits == { i \in 0..(to - 1) : s[i + 1] = b }
    IN  IF hits = {} THEN NoneV ELSE Some(Max(hits))

\* s.as_bytes()[offset - 1] panics past the end of the buffer.
NlIsBoundaryPanics(s, offset) == offset > Len(s)

NlIsBoundary(s, offset) ==
    IF offset = 0 THEN FALSE ELSE s[offset] = LF

\* The debug assertion rejects offset 0 (and without it offset - 1 wraps and
\* the slice is out of range); a slice end past the buffer panics.
NlPrev(s, offset) ==
    IF offset = 0 \/ offset - 1 > Len(s) THEN PanicV
    ELSE LET r == memrchr(LF, s, offset - 1)
         IN  IF r = NoneV THEN NoneV ELSE Some(r[1] + 1)

NlNext(s, offset) ==
    IF offset > Len(s) THEN PanicV
    ELSE LET r == memchr(LF, s, offset)
         IN  IF r = NoneV THEN NoneV ELSE Some(r[1] + 1)

----------------------------------------------------------------------------
(* The Metric trait, the metric chosen by name.                            *)

Metrics == { "CharMetric", "NewlineMetric" }

MetricIsBoundaryPanics(m, s, offset) ==
    m = "NewlineMetric" /\ NlIsBoundaryPanics(s, offset)

MetricIsBoundary(m, s, offset) ==
    IF m = "CharMetric" THEN CharIsBoundary(s, offset) ELSE NlIsBoundary(s, offset)

MetricPrev(m, s, offset) ==
    IF m = "CharMetric" THEN CharPrev(s, offset) ELSE NlPrev(s, offset)

MetricNext(m, s, offset) ==
    IF m = "CharMetric" THEN CharNext(s, offset) ELSE NlNext(s, offset)

MetricAtOrNext(m, s, offset) ==
    IF MetricIsBoundaryPanics(m, s, offset) THEN PanicV
    ELSE IF MetricIsBoundary(m, s, offset) THEN Some(offset)
    ELSE MetricNext(m, s, offset)

MetricAtOrPrev(m, s, offset) ==
    IF MetricIsBoundaryPanics(m, s, offset) THEN PanicV
    ELSE IF MetricIsBoundary(m, s, offset) THEN Some(offset)
    ELSE MetricPrev(m, s, offset)

----------------------------------------------------------------------------
(* The outcome of a cursor method: the position it leaves, what it returns *)
(* and whether it panicked (then pos is the position at the panic).        *)

\* A method's value is a sequence whatever its type: None is << >>, Some(x)
\* and a plain x are << x >>, an Interval or a Match is << start, end >>, and
\* a character is its bytes.
Val(x) == << x >>
Ret(p, r) == [pos |-> p, ret |-> r, fault |-> FALSE]
Panic(p)  == [pos |-> p, ret |-> NoneV, fault |-> TRUE]

\* StrCursor::next::<M> and StrCursor::prev::<M>
CursorNext(m, s, p) ==
    LET r == MetricNext(m, s, p)
    IN  IF r = PanicV THEN Panic(p)
        ELSE IF r = NoneV THEN Ret(p, NoneV)
        ELSE Ret(r[1], r)

CursorPrev(m, s, p) ==
    LET r == MetricPrev(m, s, p)
    IN  IF r = PanicV THEN Panic(p)
        ELSE IF r = NoneV THEN Ret(p, NoneV)
        ELSE Ret(r[1], r)

\* The cursor's at_or_prev::<M>, as next and prev: move when a boundary is found.
CursorAtOrPrev(m, s, p) ==
    LET r == MetricAtOrPrev(m, s, p)
    IN  IF r = PanicV THEN Panic(p)
        ELSE IF r = NoneV THEN Ret(p, NoneV)
        ELSE Ret(r[1], r)

\* The character that starts at the boundary offset a: s[a..].chars().next()
CharAt(s, a) ==
    IF a >= Len(s) THEN NoneV
    ELSE Some(Slice(s, a, a + len_utf8_from_first_byte(s[a + 1])))

\* get_next_char: the character at the cursor, the cursor moved past it.
\* Decoding at an offset that is no character boundary panics.
get_next_char(s, p) ==
    LET r == CharNext(s, p)
    IN  IF r = PanicV \/ ~is_char_boundary(s, p) THEN Panic(p)
        ELSE IF r = NoneV THEN Ret(p, NoneV)
        ELSE Ret(r[1], CharAt(s, p))

\* get_prev_char: the cursor moved back one character, and that character.
get_prev_char(s, p) ==
    LET r == CharPrev(s, p)
    IN  IF r = NoneV THEN Ret(p, NoneV)
        ELSE Ret(r[1], CharAt(s, r[1]))

----------------------------------------------------------------------------
(* Elementary moves.                                                       *)

set(s, p, to) == Ret(to, NoneV)

inc(s, p, n) == Ret(p + n, NoneV)

dec(s, p, n) == IF n > p THEN Ret(0, NoneV) ELSE Ret(p - n, NoneV)

RECURSIVE skip_whitespace(_, _)
skip_whitespace(s, p) ==
    LET c == get_next_char(s, p)
    IN  IF c.fault THEN Panic(p)
        ELSE IF c.ret = NoneV THEN Ret(p, Val(p))
        ELSE IF ~IsWhitespace(c.ret[1])
             THEN LET b == get_prev_char(s, c.pos) IN Ret(b.pos, Val(b.pos))
             ELSE skip_whitespace(s, get_next_char(s, c.pos).pos)

----------------------------------------------------------------------------
(* Line navigation.                                                        *)

\* goto_line_begin without the reset to 0 when no line-feed precedes the cursor.
goto_line_begin_without_reset(s, p) ==
    IF p = 0 THEN Ret(p, Val(p))
    ELSE LET r == CursorAtOrPrev("NewlineMetric", s, p)
         IN  IF r.fault THEN Panic(p)
             ELSE Ret(r.pos, Val(r.pos))

goto_line_begin(s, p) ==
    IF p = 0 THEN Ret(p, Val(p))
    ELSE LET r == CursorAtOrPrev("NewlineMetric", s, p)
         IN  IF r.fault THEN Panic(p)
             ELSE IF r.ret = NoneV THEN Ret(0, Val(0))
             ELSE Ret(r.pos, Val(r.pos))

goto_next_line(s, p) ==
    LET r == CursorNext("NewlineMetric", s, p)
    IN  IF r.fault THEN Panic(p)
        ELSE IF r.ret = NoneV THEN Ret(Len(s), Val(Len(s)))
        ELSE Ret(r.pos, Val(r.ret[1]))

\* goto_prev_line without the move to the beginning of the current line.
goto_prev_line_from_cursor(s, p) ==
    IF p = 0 THEN Ret(0, Val(0))
    ELSE LET r == CursorPrev("NewlineMetric", s, p)
         IN  IF r.fault THEN Panic(p)
             ELSE IF r.ret = NoneV THEN Ret(0, Val(0))
             ELSE Ret(r.pos, Val(r.ret[1]))

goto_prev_line(s, p) ==
    LET b == goto_line_begin(s, p)
    IN  IF b.fault THEN Panic(p)
        ELSE IF b.pos = 0 THEN Ret(0, Val(0))
        ELSE LET r == CursorPrev("NewlineMetric", s, b.pos)
             IN  IF r.fault THEN Panic(b.pos)
                 ELSE IF r.ret = NoneV THEN Ret(0, Val(0))
                 ELSE Ret(r.pos, Val(r.ret[1]))

----------------------------------------------------------------------------
(* Non-mutating line queries.                                              *)

\* An Option<i32> argument n: None, or Some of a small signed number.
Abs(x) == IF x < 0 THEN -x ELSE x

\* for _p in 0..k { self.goto_next_line(); }
RECURSIVE GotoNextLineTimes(_, _, _)
GotoNextLineTimes(s, p, k) ==
    IF k <= 0 THEN Ret(p, Val(p))
    ELSE LET r == goto_next_line(s, p)
         IN  IF r.fault THEN r ELSE GotoNextLineTimes(s, r.pos, k - 1)

\* for p in 0..k { if self.prev::<NewlineMetric>().is_none() { self.set(0); break; } }
RECURSIVE LbpBackLoop(_, _, _)
LbpBackLoop(s, p, k) ==
    IF k <= 0 THEN Ret(p, Val(p))
    ELSE LET r == CursorPrev("NewlineMetric", s, p)
         IN  IF r.fault THEN r
             ELSE IF r.ret = NoneV THEN Ret(0, Val(0))
             ELSE LbpBackLoop(s, r.pos, k - 1)

\* for p in 0..k { if self.prev::<NewlineMetric>().is_none() { break; } }
RECURSIVE LepBackLoop(_, _, _)
LepBackLoop(s, p, k) ==
    IF k <= 0 THEN Ret(p, Val(p))
    ELSE LET r == CursorPrev("NewlineMetric", s, p)
         IN  IF r.fault THEN r
             ELSE IF r.ret = NoneV THEN Ret(p, Val(p))
             ELSE LepBackLoop(s, r.pos, k - 1)

\* A faulty variant of LbpMove: n lines forward for n > 1, not n - 1.
LbpMoveOneLineTooFar(s, p, n) ==
    IF n = NoneV \/ n = Some(1) THEN goto_line_begin(s, p)
    ELSE IF n[1] > 1 THEN GotoNextLineTimes(s, p, n[1])
    ELSE LET b == goto_line_begin(s, p)
         IN  IF b.fault THEN b
             ELSE IF b.pos # 0 THEN LbpBackLoop(s, b.pos, Abs(n[1] - 1))
             ELSE b

\* The moves of line_beginning_position before it reads the position.
LbpMove(s, p, n) ==
    IF n = NoneV \/ n = Some(1) THEN goto_line_begin(s, p)
    ELSE IF n[1] > 1 THEN GotoNextLineTimes(s, p, n[1] - 1)
    ELSE LET b == goto_line_begin(s, p)
         IN  IF b.fault THEN b
             ELSE IF b.pos # 0 THEN LbpBackLoop(s, b.pos, Abs(n[1] - 1))
             ELSE b

line_beginning_position(s, p, n) ==
    LET m == LbpMove(s, p, n)
    IN  IF m.fault THEN m ELSE Ret(p, Val(m.pos))

\* The moves of line_end_position before it steps one character back.
LepMove(s, p, n) ==
    IF n = NoneV \/ n = Some(1) THEN goto_next_line(s, p)
    ELSE IF n[1] > 1 THEN GotoNextLineTimes(s, p, n[1])
    ELSE IF p # 0 THEN LepBackLoop(s, p, Abs(n[1]) + 1)
    ELSE Ret(p, Val(p))

\* A faulty variant of line_end_position: the saved position is not restored.
line_end_position_not_restored(s, p, n) ==
    LET m == LepMove(s, p, n)
    IN  IF m.fault THEN m
        ELSE LET r == CursorPrev("CharMetric", s, m.pos)
             IN  Ret(r.pos, Val(IF r.ret = NoneV THEN 0 ELSE r.ret[1]))

line_end_position(s, p, n) ==
    LET m == LepMove(s, p, n)
    IN  IF m.fault THEN m
        ELSE LET r == CursorPrev("CharMetric", s, m.pos)
             IN  Ret(p, Val(IF r.ret = NoneV THEN 0 ELSE r.ret[1]))

char_after(s, p, offset) ==
    LET r == get_next_char(s, offset)
    IN  IF r.fault THEN Panic(offset)
        ELSE Ret(p, IF r.ret = NoneV THEN NoneV ELSE r.ret[1])

----------------------------------------------------------------------------
(* Patterns.  A pattern is its source text, token by token: an optional    *)
(* leading "^" (start of the haystack), then tokens that each match one    *)
(* character.  find is the pattern engine's leftmost match in a haystack.  *)

TokChars(t) ==
    IF t = "a" THEN { ChA }
    ELSE IF t = "\\n" THEN { ChNl }
    ELSE IF t = "[[:space:]]" THEN { ChNl }
    ELSE IF t = "\\x{417}" THEN { ChZe }
    ELSE { }

Patterns ==
    { << "a" >>, << "^", "a" >>, << "\\n" >>, << "a", "a" >>,
      << "[[:space:]]", "a" >>, << "\\x{417}" >> }

Anchored(re) == re # << >> /\ re[1] = "^"
Body(re) == IF Anchored(re) THEN Tail(re) ELSE re

\* The offset at which toks, matched from offset i of hay, ends; -1 when
\* they do not match there.
RECURSIVE MatchEnd(_, _, _)
MatchEnd(toks, hay, i) ==
    IF toks = << >> THEN i
    ELSE LET c == CharAt(hay, i)
         IN  IF c = NoneV \/ c[1] \notin TokChars(Head(toks)) THEN -1
             ELSE MatchEnd(Tail(toks), hay, i + Len(c[1]))

\* Regex::find: the leftmost match as << start, end >>, or None.
find(re, hay) ==
    LET starts == { i \in 0..Len(hay) :
                      /\ is_char_boundary(hay, i)
                      /\ (Anchored(re) => i = 0)
                      /\ MatchEnd(Body(re), hay, i) >= 0 }
    IN  IF starts = {} THEN NoneV
        ELSE << Min(starts), MatchEnd(Body(re), hay, Min(starts)) >>

is_multiline_regex(re) ==
    \E k \in 1..Len(re) : re[k] \in { "\\n", "\\r", "[[:space:]]" }

\* &s[from..to] panics when the range is out of order or out of the buffer,
\* or cuts a character.
SlicePanics(s, from, to) ==
    \/ from > to
    \/ to > Len(s)
    \/ ~is_char_boundary(s, from)
    \/ ~is_char_boundary(s, to)

looking_at(s, p, re) ==
    LET nl  == NlNext(s, p)
        end == IF ~is_multiline_regex(re)
               THEN (IF nl = NoneV THEN Len(s) ELSE nl[1] - 1)
               ELSE Len(s)
    IN  IF ~is_multiline_regex(re) /\ nl = PanicV THEN Panic(p)
        ELSE IF SlicePanics(s, p, end) THEN Panic(p)
        ELSE Ret(p, find(re, Slice(s, p, end)))

----------------------------------------------------------------------------
(* Searches.                                                               *)

Literals == { << 97 >>, << 97, 97 >>, << 208, 151 >> }

\* The next item of hay.match_indices(lit) for an iterator that has
\* consumed hay[..from): the first occurrence of lit at or after from.
NextMatch(hay, lit, from) ==
    LET hits == { i \in from..(Len(hay) - Len(lit)) :
                    Slice(hay, i, i + Len(lit)) = lit }
    IN  IF hits = {} THEN NoneV ELSE Some(Min(hits))

RECURSIVE SearchLoop(_, _, _, _, _, _, _)
SearchLoop(s, p, lit, bound, count, from, i) ==
    LET m == NextMatch(Slice(s, p, Len(s)), lit, from)
    IN  IF m = NoneV THEN Ret(p, NoneV)
        ELSE IF m[1] + p + Len(lit) > bound THEN Ret(p, NoneV)
        ELSE IF count = i
             THEN Ret(m[1] + p + Len(lit), Some(m[1] + p + Len(lit)))
             ELSE SearchLoop(s, p, lit, bound, count, m[1] + Len(lit), i + 1)

\* A faulty variant of search_forward: occurrences are counted from 0.
search_forward_counting_from_0(s, p, lit, bound, count) ==
    LET cnt == IF count = NoneV THEN 1 ELSE count[1]
        bnd == IF bound = NoneV THEN Len(s) ELSE bound[1]
    IN  IF bnd < p THEN Ret(p, NoneV)
        ELSE IF SlicePanics(s, p, Len(s)) THEN Panic(p)
        ELSE SearchLoop(s, p, lit, bnd, cnt, 0, 0)

search_forward(s, p, lit, bound, count) ==
    LET cnt == IF count = NoneV THEN 1 ELSE count[1]
        bnd == IF bound = NoneV THEN Len(s) ELSE bound[1]
    IN  IF bnd < p THEN Ret(p, NoneV)
        ELSE IF SlicePanics(s, p, Len(s)) THEN Panic(p)
        ELSE SearchLoop(s, p, lit, bnd, cnt, 0, 1)

\* A faulty variant of re_search_forward: a search that finds nothing leaves
\* the cursor at the bound.
re_search_forward_moving_to_bound(s, p, re, bound) ==
    LET end == IF bound = NoneV THEN Len(s) ELSE bound[1]
    IN  IF end <= p THEN Ret(p, NoneV)
        ELSE IF SlicePanics(s, p, end) THEN Panic(p)
        ELSE LET m == find(re, Slice(s, p, end))
             IN  IF m = NoneV THEN Ret(end, NoneV)
                 ELSE Ret(p + m[2], << p + m[1], p + m[2] >>)

re_search_forward(s, p, re, bound) ==
    LET end == IF bound = NoneV THEN Len(s) ELSE bound[1]
    IN  IF end <= p THEN Ret(p, NoneV)
        ELSE IF SlicePanics(s, p, end) THEN Panic(p)
        ELSE LET m == find(re, Slice(s, p, end))
             IN  IF m = NoneV THEN Ret(p, NoneV)
                 ELSE Ret(p + m[2], << p + m[1], p + m[2] >>)

----------------------------------------------------------------------------
(* Character-set skips.  A charset is the set of characters of its string. *)

Charsets == { { ChA }, { ChNl }, { ChA, ChZe }, { ChA, ChNl, ChZe } }

RECURSIVE SkipForwardLoop(_, _, _, _, _, _)
SkipForwardLoop(s, p0, cur, cs, limit, count) ==
    LET c == get_next_char(s, cur)
    IN  IF c.fault THEN Panic(cur)
        ELSE IF c.ret = NoneV THEN Ret(cur, Val(count))
        ELSE IF c.ret[1] \notin cs THEN Ret(get_prev_char(s, c.pos).pos, Val(count))
        ELSE IF count + p0 > limit THEN Ret(get_prev_char(s, c.pos).pos, Val(count))
        ELSE SkipForwardLoop(s, p0, c.pos, cs, limit, count + 1)

skip_chars_forward(s, p, cs, limit) ==
    LET lim == IF limit = NoneV THEN Len(s) ELSE limit[1]
    IN  IF p >= lim THEN Ret(p, Val(0))
        ELSE SkipForwardLoop(s, p, p, cs, lim, 0)

\* get_next_char after a get_prev_char: the cursor is on a boundary again.
RECURSIVE SkipBackwardLoop(_, _, _, _, _)
SkipBackwardLoop(s, cur, cs, limit, count) ==
    LET c == get_prev_char(s, cur)
    IN  IF c.ret = NoneV THEN Ret(c.pos, Val(count))
        ELSE IF c.ret[1] \notin cs THEN Ret(get_next_char(s, c.pos).pos, Val(count))
        ELSE IF c.pos < limit THEN Ret(get_next_char(s, c.pos).pos, Val(count))
        ELSE SkipBackwardLoop(s, c.pos, cs, limit, count + 1)

\* skip_chars_backward that takes no notice of its limit.
skip_chars_backward_without_limit(s, p, cs, limit) ==
    IF p <= 0 THEN Ret(p, Val(0))
    ELSE SkipBackwardLoop(s, p, cs, 0, 0)

skip_chars_backward(s, p, cs, limit) ==
    LET lim == IF limit = NoneV THEN 0 ELSE limit[1]
    IN  IF p <= lim THEN Ret(p, Val(0))
        ELSE SkipBackwardLoop(s, p, cs, lim, 0)

----------------------------------------------------------------------------
(* The state machine.                                                      *)

\* The arguments of a call, those the method does not take left at their
\* defaults: n a number (an Option<i32>, a step or an offset), bound and
\* limit an Option<usize>, count an Option<usize>, str a literal, cs a
\* charset, re a pattern, m a metric.
NoArg ==
    [ n |-> NoneV, bound |-> NoneV, limit |-> NoneV, count |-> NoneV,
      str |-> << >>, cs |-> {}, re |-> << >>, m |-> "" ]

Init ==
    /\ data \in Buffers
    /\ pos \in 0..Len(data)
    /\ fault = FALSE
    /\ call = [op |-> "new", pre |-> pos, arg |-> NoArg, ret |-> NoneV]

\* A method called with argument record a, leaving outcome r.
Called(op, a, r) ==
    /\ pos' = r.pos
    /\ fault' = r.fault
    /\ call' = [op |-> op, pre |-> pos, arg |-> a, ret |-> r.ret]
    /\ UNCHANGED data

Set ==
    /\ ~fault
    /\ \E to \in 0..Len(data) : Called("set", [NoArg EXCEPT !.n = Val(to)], set(data, pos, to))

Inc ==
    /\ ~fault
    /\ \E n \in 0..MaxStep :
         /\ pos + n <= Len(data) + MaxOver
         /\ Called("inc", [NoArg EXCEPT !.n = Val(n)], inc(data, pos, n))

Dec ==
    /\ ~fault
    /\ \E n \in 0..MaxStep : Called("dec", [NoArg EXCEPT !.n = Val(n)], dec(data, pos, n))

NextM ==
    /\ ~fault
    /\ \E m \in Metrics : Called("next", [NoArg EXCEPT !.m = m], CursorNext(m, data, pos))

PrevM ==
    /\ ~fault
    /\ \E m \in Metrics : Called("prev", [NoArg EXCEPT !.m = m], CursorPrev(m, data, pos))

SkipWhitespace ==
    /\ ~fault
    /\ Called("skip_whitespace", NoArg, skip_whitespace(data, pos))

GotoLineBegin ==
    /\ ~fault
    /\ Called("goto_line_begin", NoArg, goto_line_begin(data, pos))

GotoNextLine ==
    /\ ~fault
    /\ Called("goto_next_line", NoArg, goto_next_line(data, pos))

GotoPrevLine ==
    /\ ~fault
    /\ Called("goto_prev_line", NoArg, goto_prev_line(data, pos))

\* The Option<i32> arguments n that are tried.
LineArgs == { NoneV } \cup { Some(x) : x \in (0 - MaxLines)..(MaxLines + 1) }

\* The Option<usize> offsets that are tried as a bound or a limit: None,
\* every offset of the buffer and one past its end.
OffsetArgs == { NoneV } \cup { Some(x) : x \in 0..(Len(data) + 1) }

CountArgs == { NoneV } \cup { Some(x) : x \in 0..MaxCount }

LineBeginningPosition ==
    /\ ~fault
    /\ \E n \in LineArgs :
         Called("line_beginning_position", [NoArg EXCEPT !.n = n],
                line_beginning_position(data, pos, n))

LineEndPosition ==
    /\ ~fault
    /\ \E n \in LineArgs :
         Called("line_end_position", [NoArg EXCEPT !.n = n],
                line_end_position(data, pos, n))

CharAfter ==
    /\ ~fault
    /\ \E offset \in 0..(Len(data) + 1) :
         Called("char_after", [NoArg EXCEPT !.n = Val(offset)],
                char_after(data, pos, offset))

LookingAt ==
    /\ ~fault
    /\ \E re \in Patterns :
         Called("looking_at", [NoArg EXCEPT !.re = re], looking_at(data, pos, re))

SearchForward ==
    /\ ~fault
    /\ \E lit \in Literals, bound \in OffsetArgs, count \in CountArgs :
         Called("search_forward",
                [NoArg EXCEPT !.str = lit, !.bound = bound, !.count = count],
                search_forward(data, pos, lit, bound, count))

ReSearchForward ==
    /\ ~fault
    /\ \E re \in Patterns, bound \in OffsetArgs :
         Called("re_search_forward", [NoArg EXCEPT !.re = re, !.bound = bound],
                re_search_forward(data, pos, re, bound))

SkipCharsForward ==
    /\ ~fault
    /\ \E cs \in Charsets, limit \in OffsetArgs :
         Called("skip_chars_forward", [NoArg EXCEPT !.cs = cs, !.limit = limit],
                skip_chars_forward(data, pos, cs, limit))

SkipCharsBackward ==
    /\ ~fault
    /\ \E cs \in Charsets, limit \in OffsetArgs :
         Called("skip_chars_backward", [NoArg EXCEPT !.cs = cs, !.limit = limit],
                skip_chars_backward(data, pos, cs, limit))

Next ==
    \/ Set
    \/ Inc
    \/ Dec
    \/ NextM
    \/ PrevM
    \/ SkipWhitespace
    \/ GotoLineBegin
    \/ GotoNextLine
    \/ GotoPrevLine
    \/ LineBeginningPosition
    \/ LineEndPosition
    \/ CharAfter
    \/ LookingAt
    \/ SearchForward
    \/ ReSearchForward
    \/ SkipCharsForward
    \/ SkipCharsBackward

Spec == Init /\ [][Next]_vars

----------------------------------------------------------------------------
(* Specifications of one family of methods each.  The cursor is positioned *)
(* freely (set, inc, dec), and a method of the family is called on a       *)
(* cursor that has only been positioned so far: what such a call does      *)
(* depends on the buffer, the position and the arguments alone.            *)

Positioned == call.op \in { "new", "set", "inc", "dec" }

NextSearch ==
    \/ Set
    \/ Inc
    \/ Dec
    \/ Positioned /\ NextM
    \/ Positioned /\ PrevM
    \/ Positioned /\ SearchForward
    \/ Positioned /\ ReSearchForward

SpecSearch == Init /\ [][NextSearch]_vars

NextQuery ==
    \/ Set
    \/ Inc
    \/ Dec
    \/ Positioned /\ LineBeginningPosition
    \/ Positioned /\ LineEndPosition
    \/ Positioned /\ CharAfter
    \/ Positioned /\ LookingAt

SpecQuery == Init /\ [][NextQuery]_vars

NextSkip ==
    \/ Set
    \/ Inc
    \/ Dec
    \/ Positioned /\ SkipWhitespace
    \/ Positioned /\ SkipCharsForward
    \/ Positioned /\ SkipCharsBackward

SpecSkip == Init /\ [][NextSkip]_vars

NextLine ==
    \/ Set
    \/ Inc
    \/ Dec
    \/ Positioned /\ GotoLineBegin
    \/ Positioned /\ GotoNextLine
    \/ Positioned /\ GotoPrevLine

SpecLine == Init /\ [][NextLine]_vars

----------------------------------------------------------------------------
(* Reference notions the properties are stated in.                         *)

InRange(s, p) == 0 <= p /\ p <= Len(s)

\* The offsets at which a line starts: 0 and every offset after a line-feed.
LineStarts(s) == { 0 } \cup { i + 1 : i \in { j \in 0..(Len(s) - 1) : s[j + 1] = LF } }

IsLineStart(s, b) == b = 0 \/ (b >= 1 /\ b <= Len(s) /\ s[b] = LF)

\* The number (from 0) of the line that offset p is on.
LineOf(s, p) == Cardinality({ b \in LineStarts(s) : 0 < b /\ b <= p })

\* The start of line number j, for 0 <= j < Cardinality(LineStarts(s)).
StartOfLine(s, j) ==
    CHOOSE b \in LineStarts(s) : Cardinality({ x \in LineStarts(s) : x < b }) = j

\* The offsets where a character starts, the end of the buffer excluded.
CharStarts(s) == { q \in 0..(Len(s) - 1) : is_char_boundary(s, q) }

\* The end of the k-th occurrence of lit in s at or after offset from,
\* each occurrence sought from the end of the one before; -1 if there is none.
RECURSIVE KthOccurrenceEnd(_, _, _, _)
KthOccurrenceEnd(s, from, lit, k) ==
    LET hits == { i \in from..(Len(s) - Len(lit)) : Slice(s, i, i + Len(lit)) = lit }
    IN  IF hits = {} THEN -1
        ELSE IF k = 1 THEN Min(hits) + Len(lit)
        ELSE KthOccurrenceEnd(s, Min(hits) + Len(lit), lit, k - 1)

\* k successive calls search_forward(lit, bound, Some(1)), the first at p;
\* a call that finds nothing ends the sequence with None.
RECURSIVE SuccessiveSearches(_, _, _, _, _)
SuccessiveSearches(s, p, lit, bound, k) ==
    LET r == search_forward(s, p, lit, bound, Some(1))
    IN  IF r.fault \/ r.ret = NoneV \/ k = 1 THEN r
        ELSE SuccessiveSearches(s, r.pos, lit, bound, k - 1)

----------------------------------------------------------------------------
(* Properties.                                                             *)

\* C1: after any sequence of public cursor operations on a cursor created in
\* range (set with an in-range argument, inc, dec, next, prev, the skips, the
\* line moves and queries, the searches), 0 <= pos <= len(buffer).
C1_PositionInRange == ~fault => InRange(data, pos)

\* C2: whenever next, prev (of either metric), search_forward or
\* re_search_forward returns none, the position is the one before the call.
C2_NotFoundLeavesCursor ==
    ( /\ ~fault
      /\ call.op \in { "next", "prev", "search_forward", "re_search_forward" }
      /\ call.ret = NoneV )
    => pos = call.pre

\* A search that fails because its only candidate ends past the bound.
C2_Witness ==
    /\ ~fault
    /\ call.op = "search_forward"
    /\ call.ret = NoneV
    /\ call.arg.bound # NoneV
    /\ call.arg.bound[1] >= call.pre
    /\ call.arg.count = Some(1)
    /\ KthOccurrenceEnd(data, call.pre, call.arg.str, 1) > call.arg.bound[1]

\* C3: a call of line_beginning_position, line_end_position, char_after or
\* looking_at that returns leaves the position where it was before the call,
\* whatever the argument.
C3_QueriesDoNotMove ==
    ( /\ ~fault
      /\ call.op \in { "line_beginning_position", "line_end_position",
                       "char_after", "looking_at" } )
    => pos = call.pre

\* A line query that looked at another line than the cursor's, and a peek
\* at another offset than the cursor's.
C3_Witness ==
    /\ ~fault
    /\ call.op = "line_end_position"
    /\ call.arg.n = Some(-1)
    /\ LineOf(data, call.pre) >= 2
    /\ call.ret[1] < call.pre
    /\ pos = call.pre

\* C4: from a character boundary p, skip_whitespace leaves the cursor at, and
\* returns, the first offset q >= p whose character is not whitespace, or
\* len(buffer) if there is none.
C4_SkipWhitespaceResult ==
    ( /\ call.op = "skip_whitespace"
      /\ InRange(data, call.pre)
      /\ is_char_boundary(data, call.pre) )
    => LET stops == { q \in CharStarts(data) :
                        q >= call.pre /\ ~IsWhitespace(CharAt(data, q)[1]) }
           q == IF stops = {} THEN Len(data) ELSE Min(stops)
       IN  ~fault /\ pos = q /\ call.ret = Val(q)

\* C5: skip_chars_forward(charset, Some(L)) from p with p < L <= len(buffer)
\* ends at q with p <= q <= L, every character of [p, q) in charset, and
\* returns the number of characters of [p, q); with p >= L it returns 0 and
\* does not move.
C5_SkipCharsForwardWithinLimit ==
    ( /\ call.op = "skip_chars_forward"
      /\ call.arg.limit # NoneV
      /\ InRange(data, call.pre)
      /\ is_char_boundary(data, call.pre) )
    => LET L == call.arg.limit[1]
           run == { c \in CharStarts(data) : call.pre <= c /\ c < pos }
       IN  IF call.pre >= L
           THEN ~fault /\ call.ret = Val(0) /\ pos = call.pre
           ELSE L <= Len(data)
                => /\ ~fault
                   /\ call.pre <= pos
                   /\ pos <= L
                   /\ \A c \in run : CharAt(data, c)[1] \in call.arg.cs
                   /\ call.ret = Val(Cardinality(run))

\* C6: a match that looking_at returns starts exactly at the cursor, at
\* start 0 of the scanned window.
C6_LookingAtAnchored ==
    ( /\ ~fault
      /\ call.op = "looking_at"
      /\ call.ret # NoneV )
    => call.ret[1] = 0

\* C7: search_forward(literal, bound, count) from p, with a bound B >= p
\* (default len(buffer)) and a count k >= 1 (default 1), returns Some(e)
\* exactly when the k-th occurrence of literal at or after p, occurrences
\* counted without overlap, exists and ends at e <= B; then the cursor is at
\* e and the literal ends there; and the outcome is that of k successive
\* calls with count 1 and the same bound.
C7_SearchForwardResult ==
    ( /\ ~fault
      /\ call.op = "search_forward"
      /\ (call.arg.bound # NoneV => call.arg.bound[1] >= call.pre)
      /\ (call.arg.count # NoneV => call.arg.count[1] >= 1) )
    => LET lit == call.arg.str
           B == IF call.arg.bound = NoneV THEN Len(data) ELSE call.arg.bound[1]
           k == IF call.arg.count = NoneV THEN 1 ELSE call.arg.count[1]
           e == KthOccurrenceEnd(data, call.pre, lit, k)
           it == SuccessiveSearches(data, call.pre, lit, call.arg.bound, k)
       IN  /\ (call.ret # NoneV) <=> (e >= 0 /\ e <= B)
           /\ call.ret # NoneV
              => /\ call.ret = Some(e)
                 /\ pos = e
                 /\ Slice(data, e - Len(lit), e) = lit
           /\ ~it.fault
           /\ it.ret = call.ret
           /\ call.ret # NoneV => it.pos = pos

\* The second occurrence found, ending exactly at the bound.
C7_Witness ==
    /\ ~fault
    /\ call.op = "search_forward"
    /\ call.arg.count = Some(2)
    /\ call.ret # NoneV
    /\ call.arg.bound = call.ret
    /\ pos = call.ret[1]
    /\ call.pre > 0

\* C8: re_search_forward(pattern, bound) from p with a bound B > p (default
\* len(buffer)), B larger than len(buffer) included, completes without a
\* fault; an Interval [s, e) it returns is the leftmost match of pattern in
\* the window [p, B), with p <= s <= e <= B and e <= len(buffer), and the
\* cursor is then at e.
C8_ReSearchForwardResult ==
    LET B == IF call.arg.bound = NoneV THEN Len(data) ELSE call.arg.bound[1]
    IN  ( /\ call.op = "re_search_forward"
          /\ InRange(data, call.pre)
          /\ is_char_boundary(data, call.pre)
          /\ B > call.pre
          /\ (B > Len(data) \/ is_char_boundary(data, B)) )
        => /\ ~fault
           /\ call.ret # NoneV
              => LET W == Slice(data, call.pre, IF B > Len(data) THEN Len(data) ELSE B)
                     m == find(call.arg.re, W)
                 IN  /\ m # NoneV
                     /\ call.ret = << call.pre + m[1], call.pre + m[2] >>
                     /\ call.pre <= call.ret[1]
                     /\ call.ret[1] <= call.ret[2]
                     /\ call.ret[2] <= B
                     /\ call.ret[2] <= Len(data)
                     /\ pos = call.ret[2]

\* The line that line_beginning_position(n) aims at from offset p: the
\* cursor's line number plus n - 1, None counting as 1.
TargetLine(s, p, n) == LineOf(s, p) + (IF n = NoneV THEN 1 ELSE n[1]) - 1

\* C9 as stated: line_beginning_position(n) returns the start of line
\* c + n - 1, c the cursor's line, clamped to 0 before the first line; and
\* for every n, n > 1 that runs past the last line included, what it returns
\* is the start of a line (0, or the byte before it is a line-feed).
C9_LineBeginningIsLineStart ==
    ( /\ ~fault
      /\ call.op = "line_beginning_position"
      /\ InRange(data, call.pre) )
    => LET t == TargetLine(data, call.pre, call.arg.n)
       IN  /\ t < 0 => call.ret = Val(0)
           /\ (0 <= t /\ t < Cardinality(LineStarts(data)))
              => call.ret = Val(StartOfLine(data, t))
           /\ IsLineStart(data, call.ret[1])

\* C9, amended: line_beginning_position(n) returns the start of line
\* c + n - 1 when the buffer has that line, 0 when that line lies before the
\* first line, and len(buffer) when it lies past the last line.
C9_LineBeginningResult ==
    ( /\ ~fault
      /\ call.op = "line_beginning_position"
      /\ InRange(data, call.pre) )
    => LET t == TargetLine(data, call.pre, call.arg.n)
       IN  call.ret = Val(IF t < 0 THEN 0
                          ELSE IF t < Cardinality(LineStarts(data))
                               THEN StartOfLine(data, t)
                               ELSE Len(data))

\* A query that runs past the last line and returns the end of the buffer,
\* which is not the start of a line there.
C9_Witness ==
    /\ ~fault
    /\ call.op = "line_beginning_position"
    /\ call.arg.n # NoneV
    /\ call.arg.n[1] > 1
    /\ TargetLine(data, call.pre, call.arg.n) >= Cardinality(LineStarts(data))
    /\ call.ret = Val(Len(data))
    /\ ~IsLineStart(data, call.ret[1])
    /\ pos = call.pre

\* C10: with T the line that starts at line_beginning_position(n), if T ends
\* with a line-feed then line_end_position(n) returns the offset of that
\* line-feed, from the first column of the cursor's line as from anywhere
\* else on it.
C10_LineEndMatchesLineBeginning ==
    ( /\ ~fault
      /\ call.op = "line_end_position"
      /\ InRange(data, call.pre) )
    => LET b == line_beginning_position(data, call.pre, call.arg.n).ret[1]
           nl == NlNext(data, b)
       IN  nl # NoneV => call.ret = Val(nl[1] - 1)

\* C11: on a non-empty buffer, when the line that line_end_position(n) aims
\* at has no line after it (it is the last line, or lies past it),
\* line_end_position(n) returns len(buffer).
C11_LineEndAtEndOfBuffer ==
    ( /\ ~fault
      /\ call.op = "line_end_position"
      /\ InRange(data, call.pre)
      /\ Len(data) > 0
      /\ TargetLine(data, call.pre, call.arg.n) >= Cardinality(LineStarts(data)) - 1 )
    => call.ret = Val(Len(data))

\* The greatest line start at or before the offset p.
LineStartAtOrBefore(s, p) == Max({ b \in LineStarts(s) : b <= p })

\* C12: from every position p in [0, len], goto_line_begin sets the cursor to,
\* and returns, the greatest offset b <= p that is 0 or follows a line-feed;
\* calling it again at once returns the same offset and does not move.
C12_GotoLineBeginResult ==
    ( /\ ~fault
      /\ call.op = "goto_line_begin"
      /\ InRange(data, call.pre) )
    => /\ pos = LineStartAtOrBefore(data, call.pre)
       /\ call.ret = Val(pos)
       /\ goto_line_begin(data, pos) = Ret(pos, Val(pos))

\* goto_line_begin moved the cursor back to the start of a line that is not
\* the first one.
C12_Witness ==
    /\ ~fault
    /\ call.op = "goto_line_begin"
    /\ 0 < pos
    /\ pos < call.pre
    /\ call.pre <= Len(data)

\* The line start goto_prev_line is to reach from p: the greatest line start
\* strictly below the start of p's line, 0 when p is on the first line.
PrevLineStart(s, p) ==
    LET b == LineStartAtOrBefore(s, p)
    IN  IF b = 0 THEN 0 ELSE Max({ x \in LineStarts(s) : x < b })

\* The offsets returned by k successive goto_prev_line calls, the first made
\* at p (empty from the call that panics on).
RECURSIVE PrevLineVisits(_, _, _)
PrevLineVisits(s, p, k) ==
    IF k = 0 THEN << >>
    ELSE LET r == goto_prev_line(s, p)
         IN  IF r.fault THEN << >>
             ELSE r.ret \o PrevLineVisits(s, r.pos, k - 1)

\* C13: goto_prev_line sets the cursor to, and returns, the greatest line start
\* strictly below the start b of the current line, or 0 when b = 0; called
\* repeatedly from the end of the buffer it visits every line start below the
\* last line's in strictly decreasing order and then stays at 0.
C13_GotoPrevLineResult ==
    ( /\ ~fault
      /\ call.op = "goto_prev_line"
      /\ InRange(data, call.pre) )
    => /\ pos = PrevLineStart(data, call.pre)
       /\ call.ret = Val(pos)
       /\ call.pre = Len(data) =>
            LET below == { x \in LineStarts(data) : x < LineStartAtOrBefore(data, Len(data)) }
                K     == Cardinality(below)
                v     == PrevLineVisits(data, Len(data), Cardinality(LineStarts(data)) + 1)
            IN  /\ Len(v) = Cardinality(LineStarts(data)) + 1
                /\ v[1] = pos
                /\ { v[i] : i \in 1..K } = below
                /\ \A i \in 2..K : v[i] < v[i - 1]
                /\ \A i \in (K + 1)..Len(v) : v[i] = 0

\* goto_prev_line, called at the end of a buffer of at least three lines, went
\* to the start of the line before the last, which is not the first line.
C13_Witness ==
    /\ ~fault
    /\ call.op = "goto_prev_line"
    /\ call.pre = Len(data)
    /\ 0 < pos
    /\ ~IsLineStart(data, call.pre)

\* C14: when skip_chars_forward(S, None) from a character boundary p ends at q
\* and returns k, skip_chars_backward(S, Some(p)) made at q returns k and
\* leaves the cursor exactly at p; a backward skip never ends below its limit.
C14_SkipBackwardUndoesForward ==
    /\ ( /\ ~fault
         /\ call.op = "skip_chars_forward"
         /\ call.arg.limit = NoneV
         /\ InRange(data, call.pre)
         /\ is_char_boundary(data, call.pre) )
       => LET r == skip_chars_backward(data, pos, call.arg.cs, Some(call.pre))
          IN  /\ ~r.fault
              /\ r.ret = call.ret
              /\ r.pos = call.pre
    /\ ( /\ ~fault
         /\ call.op = "skip_chars_backward"
         /\ call.arg.limit # NoneV
         /\ InRange(data, call.pre)
         /\ is_char_boundary(data, call.pre)
         /\ call.arg.limit[1] <= call.pre )
       => call.arg.limit[1] <= pos

\* skip_chars_forward(S, None) skipped at least one character from a position
\* p > 0 whose preceding character is in S too.
C14_Witness ==
    /\ ~fault
    /\ call.op = "skip_chars_forward"
    /\ call.arg.limit = NoneV
    /\ 0 < call.pre
    /\ call.pre < pos
    /\ call.ret[1] >= 1
    /\ \E c \in CharStarts(data) :
         /\ c + Len(CharAt(data, c)[1]) = call.pre
         /\ CharAt(data, c)[1] \in call.arg.cs

\* The boundaries of metric m in the buffer s.
Boundaries(m, s) == { b \in 0..Len(s) : MetricIsBoundary(m, s, b) }

\* An Option<usize> that, when it is Some, holds a boundary of metric m.
IsBoundaryOrNone(m, s, r) == r # PanicV /\ (r # NoneV => r[1] \in Boundaries(m, s))

\* C15: for both metrics and every offset in [0, len], on a boundary or not
\* (above 0 for the newline metric's prev), next when it returns an offset
\* returns the smallest boundary above the offset and prev the greatest
\* boundary below it; from a boundary next then prev, and prev then next, come
\* back to it; at_or_next and at_or_prev (the newline metric's above 0) return
\* boundaries only.
C15_NearestBoundary ==
    ( /\ ~fault
      /\ call.op \in { "next", "prev" }
      /\ InRange(data, call.pre)
      /\ ~(call.op = "prev" /\ call.arg.m = "NewlineMetric" /\ call.pre = 0) )
    => LET m     == call.arg.m
           above == { b \in Boundaries(m, data) : b > call.pre }
           below == { b \in Boundaries(m, data) : b < call.pre }
       IN  /\ (call.op = "next" /\ call.ret # NoneV)
                => /\ above # {}
                   /\ call.ret = Some(Min(above))
                   /\ call.pre \in Boundaries(m, data)
                        => MetricPrev(m, data, call.ret[1]) = Some(call.pre)
           /\ (call.op = "prev" /\ call.ret # NoneV)
                => /\ below # {}
                   /\ call.ret = Some(Max(below))
                   /\ call.pre \in Boundaries(m, data)
                        => MetricNext(m, data, call.ret[1]) = Some(call.pre)
           /\ IsBoundaryOrNone(m, data, MetricAtOrNext(m, data, call.pre))
           /\ (m = "NewlineMetric" /\ call.pre = 0)
                \/ IsBoundaryOrNone(m, data, MetricAtOrPrev(m, data, call.pre))

====
